---- MODULE Spec2Model ----
(***************************************************************************)
(* Model of src/etl_connector.py: PhishTankETL, a single-threaded ETL     *)
(* pipeline that fetches a CSV feed with retries (_fetch_csv), turns each  *)
(* row into a document (_clean_row) and upserts the documents into a       *)
(* MongoDB collection in unordered batches (_commit_batch), driven by run. *)
(*                                                                         *)
(* Python strings are sequences of one-character strings, so that strip    *)
(* and lower do real work.  A Python value that may be None is a record    *)
(* with a tag field t.                                                     *)
(***************************************************************************)
EXTENDS Integers, Sequences, FiniteSets, TLC

\* ------------------------------------------------------------ bounds
\* longest feed (rows delivered by the source in one run)
MaxFeed == 3
\* largest batch_size passed to run
MaxBatch == 2
\* largest max_rows passed to run (0 stands for None: no cap)
MaxCap == 1
\* number of times run is invoked on the same PhishTankETL object
MaxRuns == 2

MaxRetries == 4

MaxBackoff == 4

\* ------------------------------------------------------------ Python values
None == [t |-> "None"]

Str(s) == [t |-> "str", v |-> s]

IsStr(x) == x.t = "str"

\* truth value of a raw field: None and "" are falsy
Truthy(x) == IsStr(x) /\ x.v # <<>>

Whitespace == {" ", "\t"}

RECURSIVE lstrip(_)
lstrip(s) == IF s # <<>> /\ Head(s) \in Whitespace THEN lstrip(Tail(s)) ELSE s

RECURSIVE rstrip(_)
rstrip(s) ==
  IF s # <<>> /\ s[Len(s)] \in Whitespace THEN rstrip(SubSeq(s, 1, Len(s) - 1)) ELSE s

\* str.strip()
strip(s) == rstrip(lstrip(s))

UpperCase == <<"A","B","C","D","E","F","G","H","I","J","K","L","M",
               "N","O","P","Q","R","S","T","U","V","W","X","Y","Z">>

LowerCase == <<"a","b","c","d","e","f","g","h","i","j","k","l","m",
               "n","o","p","q","r","s","t","u","v","w","x","y","z">>

LowerChar(c) ==
  IF \E i \in 1..Len(UpperCase) : UpperCase[i] = c
  THEN LowerCase[CHOOSE i \in 1..Len(UpperCase) : UpperCase[i] = c]
  ELSE c

\* str.lower()
lower(s) == [i \in 1..Len(s) |-> LowerChar(s[i])]

\* dict.get(key, default)
Get(row, key, default) == IF key \in DOMAIN row THEN row[key] ELSE default

\* ------------------------------------------------------------ datetime.fromisoformat
Digits == <<"0","1","2","3","4","5","6","7","8","9">>

IsDigit(c) == \E i \in 1..Len(Digits) : Digits[i] = c

DigitVal(c) == (CHOOSE i \in 1..Len(Digits) : Digits[i] = c) - 1

RECURSIVE ToInt(_)
ToInt(s) == IF s = <<>> THEN 0 ELSE 10 * ToInt(SubSeq(s, 1, Len(s) - 1)) + DigitVal(s[Len(s)])

IsLeap(y) == (y % 4 = 0 /\ y % 100 # 0) \/ y % 400 = 0

DaysIn(y, m) ==
  IF m = 2 THEN (IF IsLeap(y) THEN 29 ELSE 28)
  ELSE IF m \in {4, 6, 9, 11} THEN 30 ELSE 31

\* the date-only form YYYY-MM-DD; every other string of the input alphabet
\* makes fromisoformat raise ValueError
IsIsoDate(s) ==
  /\ Len(s) = 10
  /\ s[5] = "-" /\ s[8] = "-"
  /\ \A i \in {1, 2, 3, 4, 6, 7, 9, 10} : IsDigit(s[i])
  /\ LET y == ToInt(SubSeq(s, 1, 4))
         m == ToInt(SubSeq(s, 6, 7))
         d == ToInt(SubSeq(s, 9, 10))
     IN y >= 1 /\ m \in 1..12 /\ d >= 1 /\ d <= DaysIn(y, m)

fromisoformat(s) ==
  IF IsIsoDate(s)
  THEN [t |-> "datetime", year |-> ToInt(SubSeq(s, 1, 4)),
        month |-> ToInt(SubSeq(s, 6, 7)), day |-> ToInt(SubSeq(s, 9, 10))]
  ELSE [t |-> "ValueError"]

\* ------------------------------------------------------------ _clean_row
Raise(exc) == [t |-> "raise", exc |-> exc]

Return(v) == [t |-> "return", v |-> v]

\* lines 55-60: a falsy field or a ValueError leaves submitted_time None
submitted_time(row) ==
  LET raw == Get(row, "submission_time", None)
  IN IF Truthy(raw)
     THEN LET parsed == fromisoformat(raw.v)
          IN IF parsed.t = "ValueError" THEN None ELSE parsed
     ELSE None

TruthyTokens == { <<"y","e","s">>, <<"y">>, <<"t","r","u","e">> }

\* mutant: the comparison without lower()
verified_exact(s) == s \in TruthyTokens

\* line 66
verified(s) == lower(s) \in TruthyTokens

\* _clean_row(row) with datetime.now() = now.  A field that is in the row
\* with the value None has no strip/lower method: AttributeError.
clean_row(row, now) ==
  LET p == Get(row, "phish_id", Str(<<>>))
      u == Get(row, "url", Str(<<>>))
      w == Get(row, "verified", Str(<<>>))
  IN IF ~IsStr(p) THEN Raise("AttributeError")
     ELSE IF ~IsStr(u) THEN Raise("AttributeError")
     ELSE IF strip(p.v) = <<>> \/ strip(u.v) = <<>> THEN Return(None)
     ELSE IF ~IsStr(w) THEN Raise("AttributeError")
     ELSE Return([t |-> "doc",
                  phish_id |-> strip(p.v),
                  url |-> strip(u.v),
                  submission_time |-> submitted_time(row),
                  verified |-> verified(w.v),
                  ingested_at |-> now])

\* ------------------------------------------------------------ the store
\* mutant: the filter is on the url
UpdateOneByUrl(doc) == [filter |-> <<"url", doc.url>>, set |-> doc]

\* line 96: UpdateOne({"phish_id": doc["phish_id"]}, {"$set": doc}, upsert=True)
UpdateOne(doc) == [filter |-> <<"phish_id", doc.phish_id>>, set |-> doc]

\* line 26: create_index("phish_id", unique=True)
UniqueIndexField == "phish_id"

NextOid(st) == IF st = {} THEN 1 ELSE 1 + (CHOOSE n \in {d.oid : d \in st} : \A d \in st : d.oid <= n)

\* mutant: $setOnInsert, a stored document keeps its fields
SetOnInsert(d, doc) ==
  IF "phish_id" \in DOMAIN d THEN d
  ELSE [oid |-> d.oid, phish_id |-> doc.phish_id, url |-> doc.url,
        submission_time |-> doc.submission_time, verified |-> doc.verified,
        ingested_at |-> doc.ingested_at]

\* $set of all five fields on a stored document; oid (Mongo's _id) is kept
SetFields(d, doc) ==
  [oid |-> d.oid, phish_id |-> doc.phish_id, url |-> doc.url,
   submission_time |-> doc.submission_time, verified |-> doc.verified,
   ingested_at |-> doc.ingested_at]

\* the unique index rejects a write that would leave two documents with one key
ViolatesIndex(st, new) ==
  \E d \in st : d.oid # new.oid /\ d[UniqueIndexField] = new[UniqueIndexField]

\* one upsert operation on the collection st
ApplyOp(st, op) ==
  LET matches == {d \in st : d[op.filter[1]] = op.filter[2]}
  IN IF matches # {}
     THEN LET target == CHOOSE d \in matches : \A e \in matches : d.oid <= e.oid
              new == SetFields(target, op.set)
          IN IF ViolatesIndex(st, new)
             THEN [store |-> st, upserted |-> 0, matched |-> 0, errors |-> 1]
             ELSE [store |-> (st \ {target}) \cup {new}, upserted |-> 0, matched |-> 1, errors |-> 0]
     ELSE LET new == SetFields([oid |-> NextOid(st)], op.set)
          IN IF ViolatesIndex(st, new)
             THEN [store |-> st, upserted |-> 0, matched |-> 0, errors |-> 1]
             ELSE [store |-> st \cup {new}, upserted |-> 1, matched |-> 0, errors |-> 0]

\* the operations of a batch, taken in the order `order`; the operations whose
\* index is in `failing` are rejected by the server (a write error)
RECURSIVE Exec(_, _, _, _)
Exec(acc, ops, order, failing) ==
  IF order = <<>> THEN acc
  ELSE LET i == Head(order)
           r == IF i \in failing
                THEN [store |-> acc.store, upserted |-> 0, matched |-> 0, errors |-> 1]
                ELSE ApplyOp(acc.store, ops[i])
       IN Exec([store |-> r.store,
                upserted |-> acc.upserted + r.upserted,
                matched |-> acc.matched + r.matched,
                errors |-> acc.errors + r.errors],
               ops, Tail(order), failing)

Orders(n) == {f \in [1..n -> 1..n] : \A i, j \in 1..n : f[i] = f[j] => i = j}

\* line 73: collection.bulk_write(batch_ops, ordered=False): every operation is
\* attempted, in no guaranteed order, and any subset of them may fail
bulk_write(st, ops) ==
  { Exec([store |-> st, upserted |-> 0, matched |-> 0, errors |-> 0], ops, order, failing) :
      order \in Orders(Len(ops)), failing \in SUBSET (1..Len(ops)) }

\* mutant: no except clause, the BulkWriteError leaves _commit_batch
commit_batch_raise(res) ==
  IF res.errors = 0
  THEN Return([ins |-> res.upserted, upd |-> res.matched])
  ELSE Raise("BulkWriteError")

\* mutant: the except clause counts the operations that failed as inserted
commit_batch_optimistic(res) ==
  IF res.errors = 0
  THEN Return([ins |-> res.upserted, upd |-> res.matched])
  ELSE Return([ins |-> res.upserted + res.errors, upd |-> res.matched])

\* lines 72-77: the result of _commit_batch given what bulk_write did;
\* bulk_write raises BulkWriteError when at least one operation failed
commit_batch(res) ==
  IF res.errors = 0
  THEN Return([ins |-> res.upserted, upd |-> res.matched])
  ELSE Return([ins |-> 0, upd |-> 0])

\* ------------------------------------------------------------ inputs
Columns == {"phish_id", "url", "submission_time", "verified"}

\* "1,u,2024-02-29,Yes"
RowA ==
  [phish_id |-> Str(<<"1">>), url |-> Str(<<"u">>),
   submission_time |-> Str(<<"2","0","2","4","-","0","2","-","2","9">>),
   verified |-> Str(<<"Y","e","s">>)]

\* " 1,v ,n/a,no": the key of RowA with other fields and an unparseable time
RowA2 ==
  [phish_id |-> Str(<<" ","1">>), url |-> Str(<<"v"," ">>),
   submission_time |-> Str(<<"n","/","a">>),
   verified |-> Str(<<"n","o">>)]

\* "2,u,,"
RowB ==
  [phish_id |-> Str(<<"2">>), url |-> Str(<<"u">>),
   submission_time |-> Str(<<>>), verified |-> Str(<<>>)]

\* "2, \t,,TRUE": the url is blank
RowBlank ==
  [phish_id |-> Str(<<"2">>), url |-> Str(<<" ","\t">>),
   submission_time |-> Str(<<>>), verified |-> Str(<<"T","R","U","E">>)]

\* "2": a line shorter than the header; csv.DictReader fills the columns
\* that have no value with None (restval)
RowShort ==
  [phish_id |-> Str(<<"2">>), url |-> None, submission_time |-> None, verified |-> None]

Rows == {RowA, RowA2, RowB, RowBlank, RowShort}

Feeds == UNION { [1..n -> Rows] : n \in 0..MaxFeed }

\* a column that the header does not have
Absent == [t |-> "absent"]

\* the row csv.DictReader makes of four fields, without the absent columns
MkRow(p, u, s, w) ==
  LET vals == [phish_id |-> p, url |-> u, submission_time |-> s, verified |-> w]
  IN [key \in {c \in Columns : vals[c] # Absent} |-> vals[key]]

VerifiedInputs ==
  { Str(<<"Y","e","s">>), Str(<<"Y">>), Str(<<"t","r","u","e">>), Str(<<"T","R","U","E">>),
    Str(<<"y","e","s">>), Str(<<"n","o">>), Str(<<>>), Str(<<" ","y","e","s">>),
    Str(<<"1">>), Str(<<"t">>), Absent, None }

TimeInputs ==
  { Str(<<"2","0","2","4","-","0","2","-","2","9">>),
    Str(<<"2","0","2","3","-","0","2","-","2","9">>),
    Str(<<"n","/","a">>), Str(<<>>), Absent, None }

\* rows with a key and a url and every combination of the two optional fields
WideRows == { MkRow(Str(<<"1">>), Str(<<"u">>), s, w) : s \in TimeInputs, w \in VerifiedInputs }

\* feeds of one such row, alone or followed by a row with another key, and a
\* feed that starts with a row without url
WideFeeds ==
  { <<r>> : r \in WideRows } \cup { <<r, RowB>> : r \in WideRows } \cup { <<RowBlank, RowB>> }

\* line 32: def _fetch_csv(self, retries=3, backoff=5): the defaults, which
\* are the values that run uses (line 81)
DefaultRetries == 3

DefaultBackoff == 5

\* ------------------------------------------------------------ state
VARIABLES
  feed,        \* the rows the source delivers, in order (the same on every run)
  batch_size,  \* argument of run
  max_rows,    \* argument of run; 0 stands for None
  retries,     \* argument of _fetch_csv
  backoff,     \* argument of _fetch_csv
  store,       \* the collection: a set of documents
  clock,       \* wall clock read by datetime.now, in run invocations
  pc,          \* "idle", "fetching", "reading", "flushing", "done", "aborted"
  error,       \* the exception that left run, or "none"
  attempt,     \* _fetch_csv: the loop variable, which counts the failed requests
  slept,       \* _fetch_csv: the time.sleep calls made so far, in order
  pos,         \* rows pulled from the reader by the current run
  pending,     \* pending_ops
  inserted, updated, skipped, processed,
  commits,     \* the bulk_write calls of the current run and what each did
  summary,     \* the [DONE] line printed by the current run, or None
  prev         \* the last run completed before the current one: its final store and
               \* whether its bulk writes were all without error; None when there is none

params == <<feed, batch_size, max_rows, retries, backoff>>

counters == <<inserted, updated, skipped, processed>>

fetcher == <<attempt, slept>>

vars == <<feed, batch_size, max_rows, retries, backoff, store, clock, pc, error, attempt, slept,
          pos, pending, inserted, updated, skipped, processed, commits, summary, prev>>

Init ==
  /\ feed \in Feeds
  /\ batch_size \in 1..MaxBatch
  /\ max_rows \in 0..MaxCap
  /\ retries = DefaultRetries /\ backoff = DefaultBackoff
  /\ store = {}
  /\ clock = 0
  /\ pc = "idle"
  /\ error = "none"
  /\ attempt = 0 /\ slept = <<>>
  /\ pos = 0
  /\ pending = <<>>
  /\ inserted = 0 /\ updated = 0 /\ skipped = 0 /\ processed = 0
  /\ commits = <<>>
  /\ summary = None
  /\ prev = None

\* ------------------------------------------------------------ _fetch_csv
\* mutant: sleeps after the last failure too
ShouldSleepAlways(a) == a < retries

\* line 41
ShouldSleep(a) == a < retries - 1

\* mutant: the wait doubles with each failure
WaitExponential(a) == backoff * 2^a

\* line 42
Wait(a) == backoff * (a + 1)

\* no bulk write of the log had an error
CleanLog(log) == \A i \in 1..Len(log) : log[i].errors = 0

\* line 79-81: run is called and calls _fetch_csv
Run ==
  /\ pc \in {"idle", "done", "aborted"}
  /\ clock < MaxRuns
  /\ clock' = clock + 1
  /\ pc' = "fetching"
  /\ error' = "none"
  /\ attempt' = 0 /\ slept' = <<>>
  /\ pos' = 0
  /\ pending' = <<>>
  /\ inserted' = 0 /\ updated' = 0 /\ skipped' = 0 /\ processed' = 0
  /\ commits' = <<>>
  /\ summary' = None
  /\ prev' = IF pc = "done" THEN [t |-> "run", store |-> store, clean |-> CleanLog(commits)]
             ELSE prev
  /\ UNCHANGED <<params, store>>

\* lines 36-44: the request raises requests.RequestException
FetchFail ==
  /\ pc = "fetching"
  /\ attempt < retries
  /\ slept' = IF ShouldSleep(attempt) THEN Append(slept, Wait(attempt)) ELSE slept
  /\ attempt' = attempt + 1
  /\ UNCHANGED <<params, store, clock, pc, error, pos, pending, counters, commits,
                 summary, prev>>

\* lines 36-38 and 82-83: the request succeeds, the reader is returned and
\* the locals of _fetch_csv are gone
FetchOk ==
  /\ pc = "fetching"
  /\ attempt < retries
  /\ pc' = "reading"
  /\ attempt' = 0 /\ slept' = <<>>
  /\ UNCHANGED <<params, store, clock, error, pos, pending, counters, commits, summary,
                 prev>>

\* line 45: the loop is over, RuntimeError leaves _fetch_csv and run
FetchExhausted ==
  /\ pc = "fetching"
  /\ attempt >= retries
  /\ pc' = "aborted"
  /\ error' = "RuntimeError"
  /\ UNCHANGED <<params, store, clock, fetcher, pos, pending, counters, commits,
                 summary, prev>>

\* ------------------------------------------------------------ run
\* line 86
CapReached == max_rows # 0 /\ processed >= max_rows

\* mutant: commits one operation late
BatchFullLate(ops) == Len(ops) > batch_size

\* line 99
BatchFull(ops) == Len(ops) >= batch_size

\* line 112
Summary(ins, upd, skp, prc) ==
  [t |-> "summary", inserted |-> ins, updated |-> upd, skipped |-> skp, processed |-> prc]

\* mutant: the summary is printed in a finally clause
AbortSummaryPrinted(ins, upd, skp, prc) == Summary(ins, upd, skp, prc)

\* what run prints when an exception leaves it: there is no try/finally
\* around lines 81-112, so nothing
AbortSummary(ins, upd, skp, prc) == None

\* mutant: the batch is not cleared after a commit
NotCleared(ops) == ops

\* line 103: pending_ops.clear()
Cleared(ops) == <<>>

\* the record kept of one bulk_write call
CommitLog(ops, res) ==
  [batch |-> ops, upserted |-> res.upserted, matched |-> res.matched, errors |-> res.errors]

\* line 85: the reader has no more rows
StreamEnd ==
  /\ pc = "reading"
  /\ pos = Len(feed)
  /\ pc' = "flushing"
  /\ UNCHANGED <<params, store, clock, error, fetcher, pos, pending, counters, commits,
                 summary, prev>>

\* line 85: pulling the next row raises (the connection drops mid-stream);
\* the for statement is outside every try block
StreamError ==
  /\ pc = "reading"
  /\ pc' = "aborted"
  /\ error' = "RequestException"
  /\ summary' = AbortSummary(inserted, updated, skipped, processed)
  /\ UNCHANGED <<params, store, clock, fetcher, pos, pending, counters, commits, prev>>

\* lines 85-87: a row is pulled, the cap is reached, break
RowCapBreak ==
  /\ pc = "reading"
  /\ pos < Len(feed)
  /\ CapReached
  /\ pos' = pos + 1
  /\ pc' = "flushing"
  /\ UNCHANGED <<params, store, clock, error, fetcher, pending, counters, commits,
                 summary, prev>>

\* mutant: a skipped row is not counted as processed
RowSkipUncounted ==
  /\ pc = "reading"
  /\ pos < Len(feed)
  /\ ~CapReached
  /\ clean_row(feed[pos + 1], clock) = Return(None)
  /\ pos' = pos + 1
  /\ skipped' = skipped + 1
  /\ UNCHANGED <<params, store, clock, pc, error, fetcher, pending, inserted, updated,
                 processed, commits, summary, prev>>

\* lines 85-93: a row is pulled and _clean_row returns None
RowSkip ==
  /\ pc = "reading"
  /\ pos < Len(feed)
  /\ ~CapReached
  /\ clean_row(feed[pos + 1], clock) = Return(None)
  /\ pos' = pos + 1
  /\ skipped' = skipped + 1
  /\ processed' = processed + 1
  /\ UNCHANGED <<params, store, clock, pc, error, fetcher, pending, inserted, updated,
                 commits, summary, prev>>

\* lines 85-89: a row is pulled and _clean_row raises
RowRaise ==
  /\ pc = "reading"
  /\ pos < Len(feed)
  /\ ~CapReached
  /\ clean_row(feed[pos + 1], clock).t = "raise"
  /\ pos' = pos + 1
  /\ pc' = "aborted"
  /\ error' = clean_row(feed[pos + 1], clock).exc
  /\ summary' = AbortSummary(inserted, updated, skipped, processed)
  /\ UNCHANGED <<params, store, clock, fetcher, pending, counters, commits, prev>>

\* lines 85-105: a row is pulled and accepted; the batch is committed when full
RowAccept ==
  /\ pc = "reading"
  /\ pos < Len(feed)
  /\ ~CapReached
  /\ LET r == clean_row(feed[pos + 1], clock)
     IN /\ r.t = "return"
        /\ r.v # None
        /\ pos' = pos + 1
        /\ LET ops == Append(pending, UpdateOne(r.v))
           IN IF BatchFull(ops)
              THEN \E res \in bulk_write(store, ops) :
                     LET ret == commit_batch(res)
                     IN /\ store' = res.store
                        /\ commits' = Append(commits, CommitLog(ops, res))
                        /\ IF ret.t = "raise"
                           THEN /\ pc' = "aborted"
                                /\ error' = ret.exc
                                /\ pending' = ops
                                /\ summary' = AbortSummary(inserted, updated, skipped, processed)
                                /\ UNCHANGED counters
                           ELSE /\ inserted' = inserted + ret.v.ins
                                /\ updated' = updated + ret.v.upd
                                /\ pending' = Cleared(ops)
                                /\ processed' = processed + 1
                                /\ UNCHANGED <<pc, error, skipped, summary>>
              ELSE /\ pending' = ops
                   /\ processed' = processed + 1
                   /\ UNCHANGED <<store, commits, pc, error, inserted, updated, skipped,
                                  summary>>
  /\ UNCHANGED <<params, clock, fetcher, prev>>

\* lines 107-112: the final flush, when there is something pending, and the summary
Flush ==
  /\ pc = "flushing"
  /\ IF pending # <<>>
     THEN \E res \in bulk_write(store, pending) :
            LET ret == commit_batch(res)
            IN /\ store' = res.store
               /\ commits' = Append(commits, CommitLog(pending, res))
               /\ IF ret.t = "raise"
                  THEN /\ pc' = "aborted"
                       /\ error' = ret.exc
                       /\ summary' = AbortSummary(inserted, updated, skipped, processed)
                       /\ UNCHANGED <<inserted, updated>>
                  ELSE /\ inserted' = inserted + ret.v.ins
                       /\ updated' = updated + ret.v.upd
                       /\ pc' = "done"
                       /\ summary' = Summary(inserted', updated', skipped, processed)
                       /\ UNCHANGED error
     ELSE /\ pc' = "done"
          /\ summary' = Summary(inserted, updated, skipped, processed)
          /\ UNCHANGED <<store, commits, error, inserted, updated>>
  /\ UNCHANGED <<params, clock, fetcher, pos, pending, skipped, processed, prev>>

Next ==
  \/ Run
  \/ FetchFail
  \/ FetchOk
  \/ FetchExhausted
  \/ StreamEnd
  \/ StreamError
  \/ RowCapBreak
  \/ RowSkip
  \/ RowRaise
  \/ RowAccept
  \/ Flush

Spec == Init /\ [][Next]_vars

\* _fetch_csv called on its own with arguments of the caller's choice
InitFetch ==
  /\ retries \in 0..MaxRetries
  /\ backoff \in 0..MaxBackoff
  /\ feed = <<>> /\ batch_size = 1 /\ max_rows = 0
  /\ store = {}
  /\ clock = 0
  /\ pc = "idle"
  /\ error = "none"
  /\ attempt = 0 /\ slept = <<>>
  /\ pos = 0
  /\ pending = <<>>
  /\ inserted = 0 /\ updated = 0 /\ skipped = 0 /\ processed = 0
  /\ commits = <<>>
  /\ summary = None
  /\ prev = None

\* lines 32-34: _fetch_csv is entered
FetchCall ==
  /\ pc = "idle"
  /\ pc' = "fetching"
  /\ attempt' = 0 /\ slept' = <<>>
  /\ UNCHANGED <<params, store, clock, error, pos, pending, counters, commits, summary,
                 prev>>

NextFetch == FetchCall \/ FetchFail \/ FetchOk \/ FetchExhausted

SpecFetch == InitFetch /\ [][NextFetch]_vars

\* a step of a run that was started: each one ends (the request has a timeout,
\* the sleeps and the feed are finite), so a started run is not left halfway
Step ==
  \/ FetchFail \/ FetchOk \/ FetchExhausted
  \/ StreamEnd \/ StreamError \/ RowCapBreak \/ RowSkip \/ RowRaise \/ RowAccept
  \/ Flush

\* the pipeline on the feeds shorter than MaxFeed, with progress of started runs
InitLive == Init /\ Len(feed) < MaxFeed

SpecLive == InitLive /\ [][Next]_vars /\ WF_vars(Step)

\* the pipeline on the feeds that vary the optional fields
InitWide ==
  /\ feed \in WideFeeds
  /\ batch_size \in 1..MaxBatch
  /\ max_rows \in 0..MaxCap
  /\ retries = DefaultRetries /\ backoff = DefaultBackoff
  /\ store = {}
  /\ clock = 0
  /\ pc = "idle"
  /\ error = "none"
  /\ attempt = 0 /\ slept = <<>>
  /\ pos = 0
  /\ pending = <<>>
  /\ inserted = 0 /\ updated = 0 /\ skipped = 0 /\ processed = 0
  /\ commits = <<>>
  /\ summary = None
  /\ prev = None

SpecWide == InitWide /\ [][Next]_vars

\* ------------------------------------------------------------ helpers of the properties
Accepted(row) == clean_row(row, 0).t = "return" /\ clean_row(row, 0).v # None

\* the rows of the feed that the current run has turned into records
AcceptedSoFar == {i \in 1..processed : Accepted(feed[i])}

RECURSIVE SumOf(_, _)
SumOf(log, field) ==
  IF log = <<>> THEN 0 ELSE log[Len(log)][field] + SumOf(SubSeq(log, 1, Len(log) - 1), field)

\* no batch holds two operations on one key that set different fields
NoConflictInBatch(log) ==
  \A i \in 1..Len(log) : \A j, k \in 1..Len(log[i].batch) :
    log[i].batch[j].set.phish_id = log[i].batch[k].set.phish_id
      => log[i].batch[j].set = log[i].batch[k].set

\* a document without the time of its last ingest
Blind(d) ==
  [oid |-> d.oid, phish_id |-> d.phish_id, url |-> d.url,
   submission_time |-> d.submission_time, verified |-> d.verified]

Ceil(n, b) == (n + b - 1) \div b

\* ------------------------------------------------------------ C1
\* the current run is done and so was an earlier one, both without a
\* bulk-write error
Rerun == pc = "done" /\ prev # None /\ prev.clean /\ CleanLog(commits)

Resubmitted(d) ==
  \E i \in 1..Len(commits) : \E j \in 1..Len(commits[i].batch) :
    commits[i].batch[j].set.phish_id = d.phish_id

\* C1 as stated: when a run completes after an earlier completed run on the
\* same feed, neither with a bulk-write error, the store equals the store
\* after the earlier run, the run reports inserted = 0 and its updated count
\* is the number of documents of the earlier store that it re-submitted.
C1_SameStoreAfterRerun ==
  Rerun =>
    /\ store = prev.store
    /\ summary.inserted = 0
    /\ summary.updated = Cardinality({d \in prev.store : Resubmitted(d)})

\* C1 amended: when a run completes after an earlier completed run on the
\* same feed, neither with a bulk-write error, and no batch holds two rows with
\* one key and different fields, the store holds the same documents as after
\* the earlier run except for ingested_at, which the later run sets anew on
\* every document it re-submits; the run reports inserted = 0 and updated = the
\* number of rows it accepted (one per upsert operation, not one per document).
C1_IdempotentRerun ==
  (Rerun /\ NoConflictInBatch(commits)) =>
    /\ {Blind(d) : d \in store} = {Blind(d) : d \in prev.store}
    /\ Cardinality(store) = Cardinality(prev.store)
    /\ \A d \in store : Resubmitted(d) => d.ingested_at = clock
    /\ summary.inserted = 0
    /\ summary.updated = summary.processed - summary.skipped

\* a second completed run that re-submits one of its two keys twice
C1_Witness ==
  /\ Rerun
  /\ NoConflictInBatch(commits)
  /\ Cardinality(store) = 2
  /\ summary.updated = 3

\* ------------------------------------------------------------ C2
\* C2: with max_rows = m set, processed never exceeds m and no row after
\* the m-th is pulled from the reader.
C2_RowCap ==
  max_rows # 0 => (processed <= max_rows /\ pos <= max_rows)

\* ------------------------------------------------------------ C3
\* C3: when every request fails, _fetch_csv raises after exactly `retries`
\* requests, having slept backoff, 2*backoff, ..., (retries-1)*backoff, with no
\* sleep after the last failure; the run has read no row, committed no batch
\* and printed no summary.  While fetching, a sleep follows each failure but
\* the last.
C3_FetchExhaustion ==
  /\ pc = "fetching" =>
       /\ attempt <= retries
       /\ Len(slept) = (IF attempt < retries THEN attempt ELSE retries - 1)
  /\ error = "RuntimeError" =>
       /\ pc = "aborted"
       /\ attempt = retries
       /\ slept = [i \in 1..(retries - 1) |-> backoff * i]
       /\ pos = 0 /\ processed = 0 /\ pending = <<>>
       /\ commits = <<>>
       /\ summary = None

C3_Witness == pc = "aborted" /\ error = "RuntimeError" /\ clock = 2 /\ store # {}

\* ------------------------------------------------------------ C4
\* C4: no commit is ever issued with an empty batch, and when the run is done
\* with n accepted rows and batch size b there were ceil(n/b) commits, all of
\* b operations except the last, which has the remaining n - b*(ceil(n/b)-1).
C4_BatchBoundary ==
  /\ \A i \in 1..Len(commits) : commits[i].batch # <<>>
  /\ pc = "done" =>
       LET n == Cardinality(AcceptedSoFar)
           k == Ceil(n, batch_size)
       IN /\ Len(commits) = k
          /\ \A i \in 1..(k - 1) : Len(commits[i].batch) = batch_size
          /\ k > 0 => Len(commits[k].batch) = n - batch_size * (k - 1)

\* three accepted rows with batch size 2: commits of 2 and 1
C4_Witness ==
  /\ pc = "done"
  /\ batch_size = 2
  /\ Cardinality(AcceptedSoFar) = 3
  /\ Len(commits) = 2
  /\ Len(commits[1].batch) = 2 /\ Len(commits[2].batch) = 1

\* ------------------------------------------------------------ C5
RequiredMissing(row) ==
  \E key \in {"phish_id", "url"} :
    \/ key \notin DOMAIN row
    \/ ~IsStr(row[key])
    \/ strip(row[key].v) = <<>>

\* C5: a row that is processed and whose phish_id or url is missing or blank
\* adds one to skipped and to processed and nothing to the pending batch, the
\* commits or the store.
C5_RequiredFieldSkip ==
  [][(/\ pc = "reading"
      /\ pos' = pos + 1
      /\ ~CapReached
      /\ RequiredMissing(feed[pos + 1]))
     => (/\ skipped' = skipped + 1
         /\ processed' = processed + 1
         /\ pending' = pending
         /\ commits' = commits
         /\ store' = store)]_vars

\* ------------------------------------------------------------ C6
\* C6: _clean_row never raises: no run ends with the AttributeError of a
\* field that carries no value.
C6_CleanRowNeverRaises == error # "AttributeError"

\* ------------------------------------------------------------ C7
RECURSIVE SumOfClean(_, _)
SumOfClean(log, field) ==
  IF log = <<>> THEN 0
  ELSE (IF log[Len(log)].errors = 0 THEN log[Len(log)][field] ELSE 0)
       + SumOfClean(SubSeq(log, 1, Len(log) - 1), field)

\* C7: a bulk-write error never leaves _commit_batch; the batch it hits adds
\* (0, 0) to the totals, which are therefore the sums over the batches without
\* an error, and a run that is done has printed its summary with these totals.
C7_BulkErrorAbsorbed ==
  /\ error # "BulkWriteError"
  /\ inserted = SumOfClean(commits, "upserted")
  /\ updated = SumOfClean(commits, "matched")
  /\ pc = "done" => summary = Summary(inserted, updated, skipped, processed)

\* a done run whose first batch failed in part and whose second was committed
C7_Witness ==
  /\ pc = "done"
  /\ Len(commits) = 2
  /\ commits[1].errors = 1 /\ commits[1].upserted = 1
  /\ commits[2].errors = 0 /\ commits[2].upserted = 1
  /\ summary # None /\ summary.inserted = 1

\* ------------------------------------------------------------ C8
\* C8: when pulling a row raises, the run is aborted with that exception, no
\* request or sleep of _fetch_csv follows, and no summary is printed; a
\* summary is there only when the run is done.
C8_StreamErrorFatal ==
  /\ error = "RequestException" =>
       /\ pc = "aborted"
       /\ attempt = 0 /\ slept = <<>>
       /\ summary = None
  /\ summary # None => pc = "done"

\* the stream fails after a batch was committed and counted
C8_Witness ==
  /\ error = "RequestException"
  /\ commits # <<>>
  /\ inserted > 0
  /\ pos < Len(feed)

\* ------------------------------------------------------------ C9
UniquePerId == \A d, e \in store : d.phish_id = e.phish_id => d = e

\* no document is removed or changes its key; a new document has a new key
KeptInPlace ==
  /\ \A d \in store : \E e \in store' : e.oid = d.oid /\ e.phish_id = d.phish_id
  /\ \A e \in store' :
       (\A d \in store : d.oid # e.oid) => (\A d \in store : d.phish_id # e.phish_id)

\* after a bulk write without error every key of the batch has its document,
\* which carries the fields of one of the batch's operations on that key
UpsertedAll ==
  (Len(commits') = Len(commits) + 1 /\ commits'[Len(commits')].errors = 0) =>
    LET batch == commits'[Len(commits')].batch
    IN \A j \in 1..Len(batch) :
         \E e \in store' : \E k \in 1..Len(batch) :
           /\ e.phish_id = batch[j].set.phish_id
           /\ batch[k].set.phish_id = e.phish_id
           /\ SetFields(e, batch[k].set) = e

\* C9: the store never holds two documents with one phish_id, no document is
\* ever removed or re-keyed, a document is created only for a key that has
\* none, and an upsert of a key that has a document updates that document.
C9_StoreLifecycle == []UniquePerId /\ [][KeptInPlace /\ UpsertedAll]_vars

\* two documents, one of them updated in place by a later run whose other
\* batch failed
C9_Witness ==
  /\ Cardinality(store) = 2
  /\ clock = 2
  /\ \E i, j \in 1..Len(commits) : commits[i].matched = 1 /\ commits[j].errors = 1
  /\ \E d \in store : d.ingested_at = 1
  /\ \E d \in store : d.ingested_at = 2

\* ------------------------------------------------------------ C10
\* C10: the totals never exceed what the bulk writes of the run really did
\* (documents created, operations that matched a document), and they are equal
\* to it when no bulk write of the run had an error.
C10_CountsLowerBound ==
  /\ inserted <= SumOf(commits, "upserted")
  /\ updated <= SumOf(commits, "matched")
  /\ CleanLog(commits) =>
       /\ inserted = SumOf(commits, "upserted")
       /\ updated = SumOf(commits, "matched")
  /\ summary # None => (summary.inserted = inserted /\ summary.updated = updated)

\* a done run that created a document it does not report
C10_Witness ==
  /\ pc = "done"
  /\ ~CleanLog(commits)
  /\ summary # None
  /\ summary.inserted < SumOf(commits, "upserted")
  /\ summary.updated = SumOf(commits, "matched")
  /\ summary.updated > 0

\* ------------------------------------------------------------ C11
\* the rows that _clean_row turns into records
AcceptedRows == {row \in Rows \cup WideRows : Accepted(row)}

\* the indices of the rows among the first n that were turned into records
RECURSIVE AcceptedIdx(_)
AcceptedIdx(n) ==
  IF n = 0 THEN <<>>
  ELSE IF feed[n] \in AcceptedRows THEN Append(AcceptedIdx(n - 1), n) ELSE AcceptedIdx(n - 1)

\* the operations of the batches of a log, in commit order
RECURSIVE Flatten(_)
Flatten(log) ==
  IF log = <<>> THEN <<>> ELSE Flatten(SubSeq(log, 1, Len(log) - 1)) \o log[Len(log)].batch

\* the operations the current run has made so far, committed or pending
Records == IF pc = "done" THEN Flatten(commits) ELSE Flatten(commits) \o pending

InLoop == pc \in {"reading", "flushing", "done"}

BothCases(c) ==
  CASE c = "y" -> {"y", "Y"} [] c = "e" -> {"e", "E"} [] c = "s" -> {"s", "S"}
    [] c = "t" -> {"t", "T"} [] c = "r" -> {"r", "R"} [] c = "u" -> {"u", "U"}

Spellings(token) ==
  {s \in [1..Len(token) -> UNION {BothCases(token[i]) : i \in 1..Len(token)}] :
     \A i \in 1..Len(token) : s[i] \in BothCases(token[i])}

\* yes, y and true in every mix of upper and lower case
TruthySpellings ==
  Spellings(<<"y","e","s">>) \cup Spellings(<<"y">>) \cup Spellings(<<"t","r","u","e">>)

ExpectedVerified(row) ==
  /\ "verified" \in DOMAIN row
  /\ IsStr(row["verified"])
  /\ row["verified"].v \in TruthySpellings

TimeUnusable(row) ==
  \/ "submission_time" \notin DOMAIN row
  \/ ~IsStr(row["submission_time"])
  \/ fromisoformat(row["submission_time"].v).t = "ValueError"

\* the step made a record without submission time of the row and did not skip it
RecordedWithoutTime(row) ==
  /\ skipped' = skipped
  /\ processed' = processed + 1
  /\ pc' = "reading"
  /\ Len(Records') = Len(Records) + 1
  /\ Records'[Len(Records')].set.phish_id = strip(row["phish_id"].v)
  /\ Records'[Len(Records')].set.submission_time = None

\* C12: a row that is processed, has a phish_id and a url, and whose
\* submission_time is absent or unparseable is not skipped: it adds a record
\* with submission_time None to the batches and leaves skipped as it was.
C12_TimestampTolerance ==
  [][(/\ pc = "reading"
      /\ pos' = pos + 1
      /\ ~CapReached
      /\ ~RequiredMissing(feed[pos + 1])
      /\ TimeUnusable(feed[pos + 1]))
     => RecordedWithoutTime(feed[pos + 1])]_vars

\* ------------------------------------------------------------ C13
\* what a caller of run() can tell apart after an abort: the exception raised
Signals == {"RuntimeError", "RequestException", "AttributeError"}

\* the run ended in an exception before any batch was committed
AbortedWithoutData == pc = "aborted" /\ commits = <<>>

\* the run committed batches and then the stream failed
AbortedAfterCommits == pc = "aborted" /\ commits # <<>> /\ error = "RequestException"

\* C13: the signals of an abort can be divided so that one part is raised
\* only when no batch was committed and the other only when batches were
\* committed before the stream failed.
C13_AbortTellsCase ==
  \E nodata \in SUBSET Signals :
    [](/\ AbortedWithoutData => error \in nodata
       /\ AbortedAfterCommits => error \notin nodata)

\* ------------------------------------------------------------ C14
\* the waits B*1, ..., B*n
LinearWaits(n) == [i \in 1..n |-> backoff * i]

\* while fetching, `attempt` requests have failed, at most `retries`, and each
\* but the last possible one was followed by its wait
FetchProtocol ==
  /\ pc = "fetching" =>
       /\ attempt <= retries
       /\ slept = LinearWaits(IF attempt < retries THEN attempt ELSE retries - 1)
  /\ pc = "reading" => (attempt = 0 /\ slept = <<>>)

\* the request that succeeds is request attempt + 1 <= retries, made after
\* the waits B*1, ..., B*attempt and followed by the return
ReturnsAtOnce ==
  (pc = "fetching" /\ pc' = "reading") =>
    /\ attempt < retries
    /\ slept = LinearWaits(attempt)

\* C14: for every R and B, _fetch_csv makes at most R requests, sleeps
\* exactly B*k after the k-th failure when k < R, and returns the reader
\* right after the first request that succeeds, with no request or sleep
\* after it.
C14_RetryProtocol == []FetchProtocol /\ [][ReturnsAtOnce]_vars

\* three requests failed, each followed by its wait, and the fourth can succeed
C14_Witness ==
  /\ pc = "fetching"
  /\ retries = 4
  /\ backoff = 2
  /\ attempt = 3
  /\ slept = <<2, 4, 6>>
  /\ ENABLED FetchOk

\* ------------------------------------------------------------ C15
\* the key of an accepted row
Key(row) == strip(row["phish_id"].v)

\* the number of the batch that holds the a-th accepted record
BatchOf(a) == Ceil(a, batch_size)

\* the store holds the record of row j under its key
StoredAs(j) ==
  LET r == clean_row(feed[j], clock).v
  IN \E d \in store :
       /\ d.phish_id = r.phish_id
       /\ d.url = r.url
       /\ d.submission_time = r.submission_time
       /\ d.verified = r.verified
       /\ d.ingested_at = r.ingested_at

\* idx lists the accepted rows; its entries a < b are the two rows with their
\* key from a on, they are in different batches and both batches were written
\* without error
TwoBatchesOneKey(idx, a, b) ==
  /\ a < b
  /\ Key(feed[idx[a]]) = Key(feed[idx[b]])
  /\ \A c \in (a + 1)..Len(idx) : c # b => Key(feed[idx[c]]) # Key(feed[idx[b]])
  /\ BatchOf(a) # BatchOf(b)
  /\ commits[BatchOf(a)].errors = 0
  /\ commits[BatchOf(b)].errors = 0

\* C15: when the run is done and two accepted rows with one key were
\* committed in different batches, both without error, the document of that
\* key in the store has the fields of the later row.
C15_LastWriteWins ==
  pc = "done" =>
    LET idx == AcceptedIdx(processed)
    IN \A a, b \in 1..Len(idx) : TwoBatchesOneKey(idx, a, b) => StoredAs(idx[b])

\* rows "1,u,..." and " 1,v ,..." went into two batches and the url is v
C15_Witness ==
  /\ pc = "done"
  /\ Len(feed) >= 2
  /\ feed[1] = RowA /\ feed[2] = RowA2
  /\ AcceptedIdx(processed) = <<1, 2>>
  /\ TwoBatchesOneKey(<<1, 2>>, 1, 2)
  /\ \E d \in store : d.phish_id = <<"1">> /\ d.url = <<"v">>
  /\ ~\E d \in store : d.url = <<"u">>

\* ------------------------------------------------------------ C16
\* the order of the states of a run; a new call of run starts over
StateOrder ==
  { <<"idle", "fetching">>,
    <<"fetching", "reading">>, <<"fetching", "aborted">>,
    <<"reading", "flushing">>, <<"reading", "aborted">>,
    <<"flushing", "done">>,
    <<"done", "fetching">>, <<"aborted", "fetching">> }

InOrder == pc' # pc => <<pc, pc'>> \in StateOrder

\* a run that is done printed its summary, and what was pending at the end of
\* the feed is the last batch that was committed
FlushedWhenDone ==
  pc = "done" =>
    /\ summary # None
    /\ pending # <<>> => (commits # <<>> /\ commits[Len(commits)].batch = pending)

\* C16: every run that was started ends, done with its summary or aborted,
\* whatever requests and bulk writes fail; the states follow each other in
\* the order idle, fetching, reading (transform and commit), flushing, done;
\* and done comes only after the last pending batch was committed.
C16_TerminationAndOrder ==
  /\ (pc = "fetching") ~> (pc \in {"done", "aborted"})
  /\ [][InOrder]_vars
  /\ []FlushedWhenDone

\* a run is done whose final flush met a bulk-write error
C16_Witness ==
  /\ pc = "done"
  /\ summary # None
  /\ pending # <<>>
  /\ Len(commits) = 1
  /\ commits[1].errors > 0

\* ------------------------------------------------------------ C17
\* the records of the batches committed so far by the current run
Committed == Len(Flatten(commits))

\* the claim as stated: the balance holds with the pending batch at the top
\* of the loop and at the summary
C17_BalanceWithPending ==
  /\ pc \in {"reading", "done"} => processed = skipped + (Committed + Len(pending))
  /\ skipped <= processed

\* C17: at the top of every loop iteration, processed = skipped + records
\* committed + records pending, and processed counts the rows pulled so far,
\* one each; at the summary, processed = skipped + records committed, which
\* include those of the final flush still held by pending_ops; skipped never
\* exceeds processed.
C17_CounterAccounting ==
  /\ pc = "reading" =>
       /\ processed = skipped + (Committed + Len(pending))
       /\ processed = pos
  /\ pc = "done" =>
       /\ processed = skipped + Committed
       /\ summary.processed = processed /\ summary.skipped = skipped
  /\ skipped <= processed

\* a summary after skipped rows and a final flush
C17_Witness ==
  /\ pc = "done"
  /\ pending # <<>>
  /\ skipped > 0
  /\ processed > skipped
  /\ summary.processed = processed

\* ------------------------------------------------------------ C18
\* the upsert of every row among the first n that was accepted, in the order
\* of the feed
RECURSIVE RecordsOf(_)
RecordsOf(n) ==
  IF n = 0 THEN <<>>
  ELSE LET r == clean_row(feed[n], clock)
       IN IF r.t = "return" /\ r.v # None
          THEN Append(RecordsOf(n - 1), UpdateOne(r.v))
          ELSE RecordsOf(n - 1)

AcceptedRecords == RecordsOf(processed)

\* C18: when the run is done, the batches given to bulk_write, one after the
\* other, are exactly the records of the accepted rows in feed order, each
\* once, whether or not a batch met an error; while the rows are read the
\* pending batch is below the threshold, and at the end of the loop the
\* committed batches followed by the pending one are the accepted records.
C18_NothingLostOrResent ==
  /\ pc = "done" => Flatten(commits) = AcceptedRecords
  /\ pc = "flushing" => Flatten(commits) \o pending = AcceptedRecords
  /\ pc \in {"reading", "flushing"} => Len(pending) < batch_size

\* a run is done with three records in two batches, the first of which failed
C18_Witness ==
  /\ pc = "done"
  /\ Len(commits) = 2
  /\ commits[1].errors > 0
  /\ Len(commits[1].batch) = 2
  /\ Len(Flatten(commits)) = 3

====
